---- MODULE Spec2Model ----
(***************************************************************************)
(* A model of logparser.py: the line classifier and driver (processLog),   *)
(* the table assembler (DataCollector.addData / handleAddData) and the     *)
(* report emitter (DataCollector.write / writeSheet / processCellData).    *)
(*                                                                         *)
(* Python strings are modelled as sequences of one-character strings, so   *)
(* that strip(), re.match() and ','.join() are computed and not assumed.   *)
(* Python's None is the one-element sequence <<"None">>, whose element is  *)
(* not a character, so it differs from every str value.                    *)
(***************************************************************************)
EXTENDS Integers, Sequences, FiniteSets, TLC

VARIABLES
  cfg,            \* which configuration (module-level constants) is loaded
  limit,          \* number of lines (of addData calls) this run may make
  pc,             \* "load", "lines", "done", "aborted", "crashed", "collect",
                  \* "cell", "returned"
  consumed,       \* ids of the lines read from the file so far, in order
  lc,             \* processLog's line counter
  hierarchyData,  \* processLog's hierarchy vector
  isHavingData,   \* processLog's flag
  sheetDict,      \* collector.sheetDict: insertion-ordered (name, tables) pairs
  defaultSheet,   \* collector.defaultSheet: a sequence of tables
  diag,           \* what print() wrote: a sequence of <<line number, text>>
  calls,          \* the addData calls made so far, with the table each one wrote
  writes,         \* how many times DataCollector.write was invoked
  workbook,       \* the closed workbook: a sequence of worksheets, or NoWorkbook
  cellInput,      \* the argument of a direct processCellData call
  cell            \* what that call returned

vars == <<cfg, limit, pc, consumed, lc, hierarchyData, isHavingData,
          sheetDict, defaultSheet, diag, calls, writes, workbook, cellInput, cell>>

----------------------------------------------------------------------------
(* Bounds of the model. *)

MaxLines == 4
MaxLinesCfg == 3
MaxCalls == 3
MaxCallsCfg == 2
MaxCellLen == 3

----------------------------------------------------------------------------
(* Strings. *)

None == <<"None">>

Digits == {"0","1","2","3","4","5","6","7","8","9"}

Lower == {"a","b","c","d","e","f","g","h","i","j","k","l","m",
          "n","o","p","q","r","s","t","u","v","w","x","y","z"}

Upper == {"A","B","C","D","E","F","G","H","I","J","K","L","M",
          "N","O","P","Q","R","S","T","U","V","W","X","Y","Z"}

WordChars == Digits \cup Lower \cup Upper \cup {"_", "^2"}

Whitespace == {" ", "\t", "\n", "\r"}

InSeq(x, s) == \E i \in 1..Len(s) : s[i] = x

RECURSIVE lstrip(_)
lstrip(s) ==
  IF Len(s) > 0 /\ s[1] \in Whitespace THEN lstrip(Tail(s)) ELSE s

RECURSIVE rstrip(_)
rstrip(s) ==
  IF Len(s) > 0 /\ s[Len(s)] \in Whitespace
  THEN rstrip(SubSeq(s, 1, Len(s) - 1))
  ELSE s

strip(s) == rstrip(lstrip(s))

(* ','.join(parts) for a list of str. *)
RECURSIVE join(_)
join(parts) ==
  IF Len(parts) = 0 THEN <<>>
  ELSE IF Len(parts) = 1 THEN parts[1]
  ELSE parts[1] \o <<",">> \o join(Tail(parts))

----------------------------------------------------------------------------
(* Regular expressions: a pattern is a sequence of atoms; re_match is      *)
(* re.match, anchored at the start of the string and not at its end, with  *)
(* greedy repetition and backtracking.                                     *)

Lit(s) == [k |-> "lit", s |-> s]
Plus(cls) == [k |-> "plus", cls |-> cls]
Open(g) == [k |-> "open", g |-> g]
Close(g) == [k |-> "close", g |-> g]

NoGroups == [g \in {} |-> <<>>]

NoMatch == [ok |-> FALSE, groups |-> NoGroups]

HasAt(s, pos, lit) ==
  /\ pos + Len(lit) - 1 <= Len(s)
  /\ \A i \in 1..Len(lit) : s[pos + i - 1] = lit[i]

RECURSIVE Run(_, _, _)
Run(s, pos, cls) ==
  IF pos <= Len(s) /\ s[pos] \in cls THEN 1 + Run(s, pos + 1, cls) ELSE 0

RECURSIVE reFrom(_, _, _, _, _, _)
RECURSIVE reTry(_, _, _, _, _, _, _)
reFrom(re, i, s, pos, opens, groups) ==
  IF i > Len(re) THEN [ok |-> TRUE, groups |-> groups]
  ELSE LET a == re[i] IN
    CASE a.k = "lit" ->
           IF HasAt(s, pos, a.s)
           THEN reFrom(re, i + 1, s, pos + Len(a.s), opens, groups)
           ELSE NoMatch
      [] a.k = "plus" ->
           reTry(re, i, s, pos, opens, groups, Run(s, pos, a.cls))
      [] a.k = "open" ->
           reFrom(re, i + 1, s, pos, (a.g :> pos) @@ opens, groups)
      [] a.k = "close" ->
           reFrom(re, i + 1, s, pos, opens,
                  (a.g :> SubSeq(s, opens[a.g], pos - 1)) @@ groups)

reTry(re, i, s, pos, opens, groups, n) ==
  IF n < 1 THEN NoMatch
  ELSE LET r == reFrom(re, i + 1, s, pos + n, opens, groups) IN
       IF r.ok THEN r ELSE reTry(re, i, s, pos, opens, groups, n - 1)

re_match(re, s) == reFrom(re, 1, s, 1, NoGroups, NoGroups)

----------------------------------------------------------------------------
(* The configuration: the module-level constants of logparser.py.          *)

sAllocationHeader == <<"a","l","l","o","c","a","t","i","o","n"," ","e","f","f","i","c","i","e","n","c","y"," ","t","e","s","t",":">>
sAllocation == <<"A","l","l","o","c","a","t","i","o","n">>
sTraverseHeader == <<"l","i","s","t"," ","t","r","a","v","e","r","s","e"," ","t","e","s","t",":">>
sTraverse == <<"T","r","a","v","e","r","s","e">>

match_series_dict ==
  [series |-> << <<sAllocationHeader, sAllocation>>,
                 <<sTraverseHeader, sTraverse>> >>]

(* r'Node size (?P<NodeSize>\d+):' *)
reNodeSize ==
  <<Lit(<<"N","o","d","e"," ","s","i","z","e"," ">>), Open("NodeSize"), Plus(Digits), Close("NodeSize"), Lit(<<":">>)>>

(* r'length: (?P<ListLength>\d+), #iteration: (?:\d+)' *)
reListLength ==
  <<Lit(<<"l","e","n","g","t","h",":"," ">>), Open("ListLength"), Plus(Digits), Close("ListLength"),
    Lit(<<","," ","#","i","t","e","r","a","t","i","o","n",":"," ">>), Plus(Digits)>>

(* Each element: <<regex, groupname>>; an empty regex is a series lookup. *)
match_orders ==
  << <<(<<>>), "series">>, <<reNodeSize, "NodeSize">>, <<reListLength, "ListLength">> >>

order_handling == <<"sheet", "", "col">>

(* r'(?P<column>\w+): (?P<value>\d+\.\d+)' *)
reRow ==
  <<Open("column"), Plus(WordChars), Close("column"), Lit(<<":"," ">>),
    Open("value"), Plus(Digits), Lit(<<".">>), Plus(Digits), Close("value")>>

(* Each element: <<regex, key group name, key literal, value group name>>. *)
match_row == << <<reRow, "column", (<<>>), "value">> >>

skip_literal_list == <<>>

(* r'IFP GT Max Num Objects: \d+' *)
reSkipIFP == <<Lit(<<"I","F","P"," ","G","T"," ","M","a","x"," ","N","u","m"," ","O","b","j","e","c","t","s",":"," ">>), Plus(Digits)>>

skip_regex_list == <<reSkipIFP>>

ShippedConfig ==
  [match_series_dict |-> match_series_dict,
   match_orders |-> match_orders,
   order_handling |-> order_handling,
   match_row |-> match_row,
   skip_literal_list |-> skip_literal_list,
   skip_regex_list |-> skip_regex_list]

(* Other values of the same constants: the role assignments the comment on  *)
(* order_handling rules out, a role list of the wrong length, role         *)
(* assignments with two title dimensions, with none, with a row dimension, *)
(* and configurations whose rules overlap on the same line.                *)

(* r'(?P<Word>\w+) ' *)
reWord == <<Open("Word"), Plus(WordChars), Close("Word"), Lit(<<" ">>)>>

(* r'\w+: (?P<value>\d+)' *)
reIntRow ==
  <<Plus(WordChars), Lit(<<":"," ">>), Open("value"), Plus(Digits), Close("value")>>

(* r'Time: \d+' *)
reSkipTime == <<Lit(<<"T","i","m","e",":"," ">>), Plus(Digits)>>

sInt == <<"i","n","t">>

OverlapConfig ==
  [match_series_dict |-> match_series_dict,
   match_orders |->
     << <<reNodeSize, "NodeSize">>, <<(<<>>), "series">>, <<reWord, "Word">> >>,
   order_handling |-> <<"col", "sheet", "">>,
   match_row |->
     << <<reRow, "column", (<<>>), "value">>, <<reIntRow, "", sInt, "value">> >>,
   skip_literal_list |-> <<sTraverseHeader>>,
   skip_regex_list |-> <<reSkipIFP, reSkipTime>>]

WithRoles(roles) == [ShippedConfig EXCEPT !.order_handling = roles]

Configs ==
  [shipped |-> ShippedConfig,
   overlap |-> OverlapConfig,
   twoSheet |-> WithRoles(<<"sheet", "sheet", "col">>),
   twoRow |-> WithRoles(<<"row", "row", "">>),
   twoCol |-> WithRoles(<<"col", "", "col">>),
   noRowCol |-> WithRoles(<<"sheet", "", "">>),
   short |-> WithRoles(<<"sheet", "">>),
   twoTitle |-> WithRoles(<<"", "", "col">>),
   rowSheetCol |-> WithRoles(<<"row", "sheet", "col">>),
   rowOnly |-> WithRoles(<<"", "row", "">>),
   rowOverlap |-> [ShippedConfig EXCEPT
                     !.match_row = << <<reRow, "column", (<<>>), "value">>,
                                      <<reIntRow, "", sInt, "value">> >>]]

ConfigNames == DOMAIN Configs

----------------------------------------------------------------------------
(* The lines an input file is made of, as readline() returns them.         *)

LineText ==
  << <<"a","l","l","o","c","a","t","i","o","n"," ","e","f","f","i","c","i","e","n","c","y"," ","t","e","s","t",":","\n">>,
     <<"l","i","s","t"," ","t","r","a","v","e","r","s","e"," ","t","e","s","t",":","\n">>,
     <<"N","o","d","e"," ","s","i","z","e"," ","8",":","\n">>,
     <<"l","e","n","g","t","h",":"," ","5",","," ","#","i","t","e","r","a","t","i","o","n",":"," ","3","\n">>,
     <<"C","o","u","n","t",":"," ","3",".","5","\n">>,
     <<" "," ","T","i","m","e",":"," ","4",".","0","\n">>,
     <<"I","F","P"," ","G","T"," ","M","a","x"," ","N","u","m"," ","O","b","j","e","c","t","s",":"," ","1","0","0","\n">>,
     <<"C","o","u","n","t",":"," ","7","\n">> >>

LineIds == 1..Len(LineText)

----------------------------------------------------------------------------
(* DataCollector: the table assembler.                                     *)
(* A table is [title, rows, cols, data] with data[row][col] = value; a     *)
(* sheet is a sequence of tables; sheetDict keeps its keys in insertion    *)
(* order, as a Python dict does.                                           *)

NewCollector == [sheetDict |-> <<>>, defaultSheet |-> <<>>]

hasKey(sd, name) == \E i \in 1..Len(sd) : sd[i].name = name

keyIndex(sd, name) == CHOOSE i \in 1..Len(sd) : sd[i].name = name

(* newTable without the value: the headers, and an empty row mapping. *)
newTableNoValue(titleName, columnName, rowName, value) ==
  [title |-> titleName,
   rows |-> <<rowName>>,
   cols |-> <<columnName>>,
   data |-> (rowName :> [c \in {} |-> value])]

(* newTable with the row and the column name taken for each other. *)
newTableSwapped(titleName, columnName, rowName, value) ==
  [title |-> titleName,
   rows |-> <<columnName>>,
   cols |-> <<rowName>>,
   data |-> (columnName :> (rowName :> value))]

newTable(titleName, columnName, rowName, value) ==
  [title |-> titleName,
   rows |-> <<rowName>>,
   cols |-> <<columnName>>,
   data |-> (rowName :> (columnName :> value))]

(* fillTable without lines 88-90: an empty cell of a known row and column  *)
(* is not filled.                                                          *)
fillTableNoCellFill(lastTable, columnName, rowName, value) ==
  IF ~InSeq(rowName, lastTable.rows)
  THEN [made |-> TRUE,
        table |-> [lastTable EXCEPT
          !.rows = Append(@, rowName),
          !.cols = IF ~InSeq(columnName, @) THEN Append(@, columnName) ELSE @,
          !.data = (rowName :> (columnName :> value)) @@ @]]
  ELSE IF ~InSeq(columnName, lastTable.cols)
  THEN [made |-> TRUE,
        table |-> [lastTable EXCEPT
          !.cols = Append(@, columnName),
          !.data = [@ EXCEPT ![rowName] = (columnName :> value) @@ @]]]
  ELSE [made |-> FALSE, table |-> lastTable]

(* fillTable writing over a populated cell instead of reporting no fill. *)
fillTableOverwrite(lastTable, columnName, rowName, value) ==
  IF ~InSeq(rowName, lastTable.rows)
  THEN [made |-> TRUE,
        table |-> [lastTable EXCEPT
          !.rows = Append(@, rowName),
          !.cols = IF ~InSeq(columnName, @) THEN Append(@, columnName) ELSE @,
          !.data = (rowName :> (columnName :> value)) @@ @]]
  ELSE IF ~InSeq(columnName, lastTable.cols)
  THEN [made |-> TRUE,
        table |-> [lastTable EXCEPT
          !.cols = Append(@, columnName),
          !.data = [@ EXCEPT ![rowName] = (columnName :> value) @@ @]]]
  ELSE [made |-> TRUE,
        table |-> [lastTable EXCEPT
          !.data = [@ EXCEPT ![rowName] = (columnName :> value) @@ @]]]

(* fillTable without lines 81-82: a new row does not add its new column. *)
fillTableRowOnly(lastTable, columnName, rowName, value) ==
  IF ~InSeq(rowName, lastTable.rows)
  THEN [made |-> TRUE,
        table |-> [lastTable EXCEPT
          !.rows = Append(@, rowName),
          !.data = (rowName :> (columnName :> value)) @@ @]]
  ELSE IF ~InSeq(columnName, lastTable.cols)
  THEN [made |-> TRUE,
        table |-> [lastTable EXCEPT
          !.cols = Append(@, columnName),
          !.data = [@ EXCEPT ![rowName] = (columnName :> value) @@ @]]]
  ELSE IF columnName \notin DOMAIN lastTable.data[rowName]
  THEN [made |-> TRUE,
        table |-> [lastTable EXCEPT
          !.data = [@ EXCEPT ![rowName] = (columnName :> value) @@ @]]]
  ELSE [made |-> FALSE, table |-> lastTable]

(* fillTable without line 83: a new row gets its header and its empty      *)
(* mapping, and no value.                                                  *)
fillTableEmptyRow(lastTable, columnName, rowName, value) ==
  IF ~InSeq(rowName, lastTable.rows)
  THEN [made |-> TRUE,
        table |-> [lastTable EXCEPT
          !.rows = Append(@, rowName),
          !.cols = IF ~InSeq(columnName, @) THEN Append(@, columnName) ELSE @,
          !.data = (rowName :> [c \in {} |-> value]) @@ @]]
  ELSE IF ~InSeq(columnName, lastTable.cols)
  THEN [made |-> TRUE,
        table |-> [lastTable EXCEPT
          !.cols = Append(@, columnName),
          !.data = [@ EXCEPT ![rowName] = (columnName :> value) @@ @]]]
  ELSE IF columnName \notin DOMAIN lastTable.data[rowName]
  THEN [made |-> TRUE,
        table |-> [lastTable EXCEPT
          !.data = [@ EXCEPT ![rowName] = (columnName :> value) @@ @]]]
  ELSE [made |-> FALSE, table |-> lastTable]

(* fillTable without the test of line 81: a new row always appends its     *)
(* column name.                                                            *)
fillTableDupCol(lastTable, columnName, rowName, value) ==
  IF ~InSeq(rowName, lastTable.rows)
  THEN [made |-> TRUE,
        table |-> [lastTable EXCEPT
          !.rows = Append(@, rowName),
          !.cols = Append(@, columnName),
          !.data = (rowName :> (columnName :> value)) @@ @]]
  ELSE IF ~InSeq(columnName, lastTable.cols)
  THEN [made |-> TRUE,
        table |-> [lastTable EXCEPT
          !.cols = Append(@, columnName),
          !.data = [@ EXCEPT ![rowName] = (columnName :> value) @@ @]]]
  ELSE IF columnName \notin DOMAIN lastTable.data[rowName]
  THEN [made |-> TRUE,
        table |-> [lastTable EXCEPT
          !.data = [@ EXCEPT ![rowName] = (columnName :> value) @@ @]]]
  ELSE [made |-> FALSE, table |-> lastTable]

(* The fill of lines 76-90: whether a fill was made, and the table after it. *)
fillTable(lastTable, columnName, rowName, value) ==
  LET rows == lastTable.rows
      cols == lastTable.cols
      data == lastTable.data
  IN IF ~InSeq(rowName, rows)
     THEN [made |-> TRUE,
           table |-> [lastTable EXCEPT
             !.rows = Append(rows, rowName),
             !.cols = IF ~InSeq(columnName, cols) THEN Append(cols, columnName) ELSE cols,
             !.data = (rowName :> (columnName :> value)) @@ data]]
     ELSE IF ~InSeq(columnName, cols)
     THEN [made |-> TRUE,
           table |-> [lastTable EXCEPT
             !.cols = Append(cols, columnName),
             !.data = [data EXCEPT ![rowName] = (columnName :> value) @@ @]]]
     ELSE IF columnName \notin DOMAIN data[rowName]
     THEN [made |-> TRUE,
           table |-> [lastTable EXCEPT
             !.data = [data EXCEPT ![rowName] = (columnName :> value) @@ @]]]
     ELSE [made |-> FALSE, table |-> lastTable]

(* handleAddData inspecting the first table of the sheet, not the last. *)
handleAddDataFirstTable(sheet, titleName, columnName, rowName, value) ==
  IF /\ Len(sheet) > 0
     /\ titleName = sheet[1].title
     /\ fillTable(sheet[1], columnName, rowName, value).made
  THEN [sheet EXCEPT ![1] = fillTable(sheet[1], columnName, rowName, value).table]
  ELSE Append(sheet, newTable(titleName, columnName, rowName, value))

handleAddData(sheet, titleName, columnName, rowName, value) ==
  LET n == Len(sheet)
      fill == IF n > 0 /\ titleName = sheet[n].title
              THEN fillTable(sheet[n], columnName, rowName, value)
              ELSE [made |-> FALSE, table |-> <<>>]
      isCreateNewTable == ~fill.made
  IN IF isCreateNewTable
     THEN Append(sheet, newTable(titleName, columnName, rowName, value))
     ELSE [sheet EXCEPT ![n] = fill.table]

DefaultTarget == [keyed |-> FALSE, name |-> None]

(* partition without line 117: the sheet's list is created, and the data  *)
(* still goes to the default sheet.                                        *)
RECURSIVE partitionKeepsDefault(_, _, _, _)
partitionKeepsDefault(roles, h, i, acc) ==
  IF i > Len(h) THEN acc
  ELSE partitionKeepsDefault(roles, h, i + 1,
      CASE roles[i] = "sheet" ->
             [acc EXCEPT
               !.sheetDict = IF hasKey(@, h[i]) THEN @
                             ELSE Append(@, [name |-> h[i], tables |-> <<>>])]
        [] roles[i] = "row" -> [acc EXCEPT !.rowName = h[i]]
        [] roles[i] = "col" -> [acc EXCEPT !.columnName = h[i]]
        [] OTHER -> [acc EXCEPT !.dupHierarchy = Append(@, h[i])])

(* The loop of lines 111-123 from dimension i on. *)
RECURSIVE partition(_, _, _, _)
partition(roles, h, i, acc) ==
  IF i > Len(h) THEN acc
  ELSE LET p == roles[i] IN
    partition(roles, h, i + 1,
      CASE p = "sheet" ->
             [acc EXCEPT
               !.sheetDict = IF hasKey(@, h[i]) THEN @
                             ELSE Append(@, [name |-> h[i], tables |-> <<>>]),
               !.sheet = [keyed |-> TRUE, name |-> h[i]]]
        [] p = "row" -> [acc EXCEPT !.rowName = h[i]]
        [] p = "col" -> [acc EXCEPT !.columnName = h[i]]
        [] OTHER -> [acc EXCEPT !.dupHierarchy = Append(@, h[i])])

(* Lines 124-128; ','.join raises TypeError on an item that is not a str. *)
titleOf(dupHierarchy) ==
  IF Len(dupHierarchy) = 1 THEN [raised |-> FALSE, titleName |-> dupHierarchy[1]]
  ELSE IF InSeq(None, dupHierarchy) THEN [raised |-> TRUE, titleName |-> None]
  ELSE [raised |-> FALSE, titleName |-> join(dupHierarchy)]

sheetOf(coll, target) ==
  IF target.keyed THEN coll.sheetDict[keyIndex(coll.sheetDict, target.name)].tables
  ELSE coll.defaultSheet

(* Line 129, the names and the title resolved: the result of addData. *)
addDataTo(coll1, acc, t, value) ==
  [raised |-> t.raised,
   coll |-> IF t.raised THEN coll1
            ELSE IF acc.sheet.keyed
            THEN [coll1 EXCEPT
                   !.sheetDict[keyIndex(acc.sheetDict, acc.sheet.name)].tables =
                     handleAddData(@, t.titleName, acc.columnName, acc.rowName, value)]
            ELSE [coll1 EXCEPT
                   !.defaultSheet =
                     handleAddData(@, t.titleName, acc.columnName, acc.rowName, value)],
   target |-> acc.sheet, titleName |-> t.titleName,
   columnName |-> acc.columnName, rowName |-> acc.rowName]

(* Lines 124-129, acc being what the loop of lines 111-123 left. *)
addDataPartitioned(coll, acc, value) ==
  addDataTo([coll EXCEPT !.sheetDict = acc.sheetDict], acc,
            titleOf(acc.dupHierarchy), value)

(* addData: the collector after the call, whether the call raised (an      *)
(* assertion of lines 103-106, or the join), and what was handed to        *)
(* handleAddData.                                                          *)
addData(c, coll, hierarchyDataList, key, value) ==
  IF ~(Len(hierarchyDataList) = Len(c.match_orders) /\ key # None /\ value # None)
  THEN [raised |-> TRUE, coll |-> coll, target |-> DefaultTarget,
        titleName |-> None, columnName |-> key, rowName |-> key]
  ELSE addDataPartitioned(coll,
         partition(c.order_handling, hierarchyDataList, 1,
           [sheetDict |-> coll.sheetDict, sheet |-> DefaultTarget,
            rowName |-> key, columnName |-> key, dupHierarchy |-> <<>>]),
         value)

(* The record kept of one addData call: its arguments, what it resolved    *)
(* them to, and the position in the target sheet of the table it wrote.    *)
callRecord(r, hierarchyDataList, key, value) ==
  [h |-> hierarchyDataList, key |-> key, value |-> value,
   raised |-> r.raised, target |-> r.target, title |-> r.titleName,
   row |-> r.rowName, col |-> r.columnName,
   tbl |-> IF r.raised THEN 0 ELSE Len(sheetOf(r.coll, r.target))]

----------------------------------------------------------------------------
(* The report emitter.  A cell value is an int, a float (a decimal         *)
(* mantissa and exponent, trailing zeros removed, or inf / nan) or a str.  *)

DigitSeq == <<"0","1","2","3","4","5","6","7","8","9">>

digitVal(ch) == (CHOOSE i \in 1..10 : DigitSeq[i] = ch) - 1

RECURSIVE natVal(_)
natVal(s) ==
  IF Len(s) = 0 THEN 0
  ELSE 10 * natVal(SubSeq(s, 1, Len(s) - 1)) + digitVal(s[Len(s)])

(* SUPERSCRIPT TWO (U+00B2), written here as one character: a digit to    *)
(* str.isdigit(), matched by \w, but not a decimal to int(), float() or \d. *)
SuperscriptTwo == "^2"

IsDigitChars == Digits \cup {SuperscriptTwo}

(* str.isdigit() *)
isdigit(s) == Len(s) > 0 /\ \A i \in 1..Len(s) : s[i] \in IsDigitChars

LowerSeq == <<"a","b","c","d","e","f","g","h","i","j","k","l","m",
              "n","o","p","q","r","s","t","u","v","w","x","y","z">>

UpperSeq == <<"A","B","C","D","E","F","G","H","I","J","K","L","M",
              "N","O","P","Q","R","S","T","U","V","W","X","Y","Z">>

lowerChar(ch) ==
  IF ch \in Upper THEN LowerSeq[CHOOSE i \in 1..26 : UpperSeq[i] = ch] ELSE ch

lower(s) == [i \in 1..Len(s) |-> lowerChar(s[i])]

RECURSIVE normFloat(_, _)
normFloat(mant, exp) ==
  IF mant = 0 THEN [mant |-> 0, exp |-> 0]
  ELSE IF mant % 10 = 0 THEN normFloat(mant \div 10, exp + 1)
  ELSE [mant |-> mant, exp |-> exp]

NotFloat == [ok |-> FALSE]

(* float(s) for a stripped str: [sign] digits [. digits] [e [sign] digits], *)
(* or inf, infinity, nan in any case; ValueError otherwise.                 *)

(* The number read: n1 integer digits, n2 fraction digits, and an exponent *)
(* of n3 digits starting at eStart (n3 = 0 and eNeg = FALSE without one).  *)
floatValue(neg, body, n1, n2, eNeg, eStart, n3) ==
  LET e == (IF eNeg THEN -1 ELSE 1) * natVal(SubSeq(body, eStart, eStart + n3 - 1))
      nf == normFloat(natVal(SubSeq(body, 1, n1) \o SubSeq(body, n1 + 2, n1 + 1 + n2)),
                      e - n2)
  IN [ok |-> TRUE, neg |-> neg, special |-> "", mant |-> nf.mant, exp |-> nf.exp]

(* The exponent, if any, from position p on. *)
floatExponent(neg, body, n1, n2, p) ==
  IF p = Len(body) + 1 THEN floatValue(neg, body, n1, n2, FALSE, p, 0)
  ELSE IF body[p] \notin {"e", "E"} THEN NotFloat
  ELSE LET eSigned == p + 1 <= Len(body) /\ body[p + 1] \in {"+", "-"}
           eStart == IF eSigned THEN p + 2 ELSE p + 1
           n3 == Run(body, eStart, Digits)
       IN IF n3 >= 1 /\ eStart + n3 = Len(body) + 1
          THEN floatValue(neg, body, n1, n2, eSigned /\ body[p + 1] = "-", eStart, n3)
          ELSE NotFloat

(* The digits and the point, after n1 integer digits. *)
floatDigits(neg, body, n1) ==
  IF n1 + 1 <= Len(body) /\ body[n1 + 1] = "."
  THEN LET n2 == Run(body, n1 + 2, Digits) IN
       IF n1 + n2 >= 1 THEN floatExponent(neg, body, n1, n2, n1 + 2 + n2) ELSE NotFloat
  ELSE IF n1 >= 1 THEN floatExponent(neg, body, n1, 0, n1 + 1) ELSE NotFloat

floatBody(neg, body) ==
  IF lower(body) \in {<<"i","n","f">>, <<"i","n","f","i","n","i","t","y">>}
  THEN [ok |-> TRUE, neg |-> neg, special |-> "inf", mant |-> 0, exp |-> 0]
  ELSE IF lower(body) = <<"n","a","n">>
  THEN [ok |-> TRUE, neg |-> neg, special |-> "nan", mant |-> 0, exp |-> 0]
  ELSE floatDigits(neg, body, Run(body, 1, Digits))

parseFloat(s) ==
  IF Len(s) > 0 /\ s[1] \in {"+", "-"} THEN floatBody(s[1] = "-", Tail(s))
  ELSE floatBody(FALSE, s)

(* Lines 142-149: a float if float() accepts the string, else the string. *)
floatOrStr(stripped, f) ==
  IF f.ok
  THEN [raised |-> FALSE, type |-> "float", neg |-> f.neg,
        special |-> f.special, mant |-> f.mant, exp |-> f.exp]
  ELSE [raised |-> FALSE, type |-> "str", val |-> stripped]

(* Line 140, int(stripped): ValueError on a digit that is not a decimal. *)
intOf(stripped, intBase) ==
  IF \A i \in 1..Len(intBase) : intBase[i] \in Digits
  THEN [raised |-> FALSE, type |-> "int",
        val |-> IF intBase = stripped THEN natVal(intBase) ELSE -natVal(intBase)]
  ELSE [raised |-> TRUE]

(* Lines 136-149 on the stripped string. *)
cellValue(stripped, intBase) ==
  IF isdigit(intBase) THEN intOf(stripped, intBase)
  ELSE floatOrStr(stripped, parseFloat(stripped))

stripMinus(stripped) ==
  IF Len(stripped) > 0 /\ stripped[1] = "-" THEN Tail(stripped) ELSE stripped

(* processCellData: AttributeError on None (it has no strip), ValueError   *)
(* from int().                                                             *)
processCellData(string) ==
  IF string = None THEN [raised |-> TRUE]
  ELSE cellValue(strip(string), stripMinus(strip(string)))

(* The sheetOutput.write(row, col, value) calls made for one table whose   *)
(* title row is curRowBase, as a set of <<row, col, string>>.              *)
tableWrites(table, curRowBase) ==
  {<<curRowBase, 0, table.title>>}
  \cup {<<curRowBase, 1 + (c - 1), table.cols[c]>> : c \in 1..Len(table.cols)}
  \cup {<<curRowBase + 1 + (r - 1), 0, table.rows[r]>> : r \in 1..Len(table.rows)}
  \cup {<<curRowBase + 1 + (r - 1), 1 + (c - 1), table.data[table.rows[r]][table.cols[c]]>> :
          <<r, c>> \in {rc \in (1..Len(table.rows)) \X (1..Len(table.cols)) :
                          table.cols[rc[2]] \in DOMAIN table.data[table.rows[rc[1]]]}}

(* The cells one table adds to the sheet: each string through             *)
(* processCellData.                                                        *)
cellsOf(w) ==
  [x \in {<<y[1], y[2]>> : y \in w} |->
     processCellData((CHOOSE y \in w : <<y[1], y[2]>> = x)[3])]

(* writeSheet advancing by 1 + len(rows): no blank row between tables.    *)
RECURSIVE writeSheetNoBlank(_, _, _, _)
writeSheetNoBlank(sheetData, k, curRowBase, cells) ==
  IF k > Len(sheetData) THEN [raised |-> FALSE, cells |-> cells]
  ELSE IF \E x \in tableWrites(sheetData[k], curRowBase) : processCellData(x[3]).raised
  THEN [raised |-> TRUE, cells |-> cells]
  ELSE writeSheetNoBlank(sheetData, k + 1, curRowBase + 1 + Len(sheetData[k].rows),
                         cellsOf(tableWrites(sheetData[k], curRowBase)) @@ cells)

(* writeSheet from table k on: the cells written, and whether a            *)
(* processCellData call raised.                                            *)
RECURSIVE writeSheet(_, _, _, _)
writeSheet(sheetData, k, curRowBase, cells) ==
  IF k > Len(sheetData) THEN [raised |-> FALSE, cells |-> cells]
  ELSE IF \E x \in tableWrites(sheetData[k], curRowBase) : processCellData(x[3]).raised
  THEN [raised |-> TRUE, cells |-> cells]
  ELSE writeSheet(sheetData, k + 1, curRowBase + 2 + Len(sheetData[k].rows),
                  cellsOf(tableWrites(sheetData[k], curRowBase)) @@ cells)

NoCells == [x \in {} |-> 0]

(* workbook.add_worksheet(name): None and '' get the default SheetN.       *)
worksheetName(sheetName, n) ==
  IF sheetName = None \/ sheetName = <<>>
  THEN <<"S","h","e","e","t">> \o <<DigitSeq[n + 1]>>
  ELSE sheetName

RECURSIVE writeSheets(_, _, _)
RECURSIVE writeSheetsFrom(_, _, _, _)
writeSheets(sd, k, sheets) ==
  IF k > Len(sd) THEN [raised |-> FALSE, sheets |-> sheets]
  ELSE writeSheetsFrom(sd, k, sheets, writeSheet(sd[k].tables, 1, 0, NoCells))

writeSheetsFrom(sd, k, sheets, s) ==
  IF s.raised THEN [raised |-> TRUE, sheets |-> sheets]
  ELSE writeSheets(sd, k + 1,
         Append(sheets, [name |-> worksheetName(sd[k].name, k), cells |-> s.cells]))

NoWorkbook == [closed |-> FALSE, sheets |-> <<>>]

(* No processCellData call was made. *)
NoCell == [raised |-> FALSE, type |-> "none"]

closeWorkbook(r) ==
  [raised |-> r.raised,
   workbook |-> IF r.raised THEN NoWorkbook ELSE [closed |-> TRUE, sheets |-> r.sheets]]

(* DataCollector.write: the closed workbook, or raised (an assertion or a  *)
(* processCellData call failed, and no file is produced).                  *)
write(c, coll) ==
  IF InSeq("sheet", c.order_handling)
  THEN IF Len(coll.defaultSheet) # 0
       THEN closeWorkbook([raised |-> TRUE, sheets |-> <<>>])
       ELSE closeWorkbook(writeSheets(coll.sheetDict, 1, <<>>))
  ELSE IF Len(coll.sheetDict) # 0
       THEN closeWorkbook([raised |-> TRUE, sheets |-> <<>>])
       ELSE closeWorkbook(
              writeSheets(<<[name |-> None, tables |-> coll.defaultSheet]>>, 1, <<>>))

----------------------------------------------------------------------------
(* processLog: the line classifier and the driver.                         *)

(* Lines 196-199. *)
isSkipLiteral(c, strippedline) ==
  \E g \in 1..Len(c.skip_literal_list) : strippedline = c.skip_literal_list[g]

(* isSkipRegex trying the first skip pattern only. *)
isSkipRegexFirstOnly(c, strippedline) ==
  Len(c.skip_regex_list) > 0 /\ re_match(c.skip_regex_list[1], strippedline).ok

(* Lines 204-207. *)
isSkipRegex(c, strippedline) ==
  \E g \in 1..Len(c.skip_regex_list) : re_match(c.skip_regex_list[g], strippedline).ok

(* seriesLookup storing the header instead of the series name. *)
RECURSIVE seriesLookupHeader(_, _, _)
seriesLookupHeader(items, strippedline, k) ==
  IF k > Len(items) THEN [isMatched |-> FALSE, seriesName |-> None]
  ELSE IF strippedline = items[k][1]
  THEN [isMatched |-> TRUE, seriesName |-> items[k][1]]
  ELSE seriesLookupHeader(items, strippedline, k + 1)

(* Lines 217-221: for header, seriesName in dict_series.items(). *)
RECURSIVE seriesLookup(_, _, _)
seriesLookup(items, strippedline, k) ==
  IF k > Len(items) THEN [isMatched |-> FALSE, seriesName |-> None]
  ELSE IF strippedline = items[k][1]
  THEN [isMatched |-> TRUE, seriesName |-> items[k][2]]
  ELSE seriesLookup(items, strippedline, k + 1)

(* scanOrders without the break of lines 228-230: every extractor that    *)
(* matches sets its entry.                                                 *)
RECURSIVE scanOrdersNoBreak(_, _, _, _)
scanOrdersNoBreak(c, strippedline, i, hd) ==
  IF i > Len(c.match_orders) THEN [isMatched |-> FALSE, hierarchyData |-> hd]
  ELSE IF Len(c.match_orders[i][1]) = 0
  THEN IF seriesLookup(c.match_series_dict[c.match_orders[i][2]], strippedline, 1).isMatched
       THEN [isMatched |-> TRUE,
             hierarchyData |->
               scanOrdersNoBreak(c, strippedline, i + 1,
                 [hd EXCEPT ![i] =
                    seriesLookup(c.match_series_dict[c.match_orders[i][2]],
                                 strippedline, 1).seriesName]).hierarchyData]
       ELSE scanOrdersNoBreak(c, strippedline, i + 1, hd)
  ELSE IF re_match(c.match_orders[i][1], strippedline).ok
       THEN [isMatched |-> TRUE,
             hierarchyData |->
               scanOrdersNoBreak(c, strippedline, i + 1,
                 [hd EXCEPT ![i] =
                    re_match(c.match_orders[i][1], strippedline).groups[c.match_orders[i][2]]]).hierarchyData]
       ELSE scanOrdersNoBreak(c, strippedline, i + 1, hd)

(* Lines 212-230 from index i on: the first extractor that matches sets    *)
(* its entry of the hierarchy and ends the scan.                           *)
RECURSIVE scanOrders(_, _, _, _)
scanOrders(c, strippedline, i, hd) ==
  IF i > Len(c.match_orders) THEN [isMatched |-> FALSE, hierarchyData |-> hd]
  ELSE
  LET regex == c.match_orders[i][1]
      name == c.match_orders[i][2]
  IN IF Len(regex) = 0
     THEN LET s == seriesLookup(c.match_series_dict[name], strippedline, 1) IN
          IF s.isMatched
          THEN [isMatched |-> TRUE, hierarchyData |-> [hd EXCEPT ![i] = s.seriesName]]
          ELSE scanOrders(c, strippedline, i + 1, hd)
     ELSE LET result == re_match(regex, strippedline) IN
          IF result.ok
          THEN [isMatched |-> TRUE, hierarchyData |-> [hd EXCEPT ![i] = result.groups[name]]]
          ELSE scanOrders(c, strippedline, i + 1, hd)

(* Lines 233-244 from extractor t on: the first row extractor that matches. *)
RECURSIVE scanRows(_, _, _)
scanRows(c, strippedline, t) ==
  IF t > Len(c.match_row) THEN [isMatched |-> FALSE, key |-> None, value |-> None]
  ELSE
  LET regex == c.match_row[t][1]
      keyGroup == c.match_row[t][2]
      keyLiteral == c.match_row[t][3]
      valueGroup == c.match_row[t][4]
      result == re_match(regex, strippedline)
  IN IF result.ok
     THEN [isMatched |-> TRUE,
           key |-> IF keyGroup # "" THEN result.groups[keyGroup] ELSE keyLiteral,
           value |-> result.groups[valueGroup]]
     ELSE scanRows(c, strippedline, t + 1)

(* skipLine without lc += 1. *)
skipLineNoCount(st) == st

(* Lines 200-203 and 208-211: a skipped line. *)
skipLine(st) == [st EXCEPT !.lc = @ + 1]

(* Lines 248-249: the end of an iteration. *)
nextLine(st) == [st EXCEPT !.lc = @ + 1]

(* Line 247. *)
printSkipped(st, strippedline) ==
  [st EXCEPT !.diag = Append(@, <<st.lc, strippedline>>)]

(* Lines 242-243, a being what addData did; an exception raised in         *)
(* addData ends the run.                                                   *)
rowData(st, key, value, a) ==
  [st EXCEPT !.coll = a.coll,
             !.calls = Append(@, callRecord(a, st.hierarchyData, key, value)),
             !.raised = a.raised,
             !.isHavingData = IF a.raised THEN @ ELSE TRUE]

(* The exception leaves the loop; otherwise lines 248-249 follow. *)
afterRow(st1) == IF st1.raised THEN st1 ELSE nextLine(st1)

(* Lines 231-249, r being the scan of the row extractors. *)
rowOrUnrecognized(c, st, strippedline, r) ==
  IF r.isMatched
  THEN afterRow(rowData(st, r.key, r.value,
                        addData(c, st.coll, st.hierarchyData, r.key, r.value)))
  ELSE nextLine(printSkipped(st, strippedline))

(* hierarchyOrRow trying the row extractors before the hierarchy update. *)
hierarchyOrRowRowsFirst(c, st, strippedline, h) ==
  IF scanRows(c, strippedline, 1).isMatched
  THEN rowOrUnrecognized(c, st, strippedline, scanRows(c, strippedline, 1))
  ELSE IF h.isMatched THEN nextLine([st EXCEPT !.hierarchyData = h.hierarchyData])
  ELSE nextLine(printSkipped(st, strippedline))

(* Lines 212-249, h being the scan of the hierarchy extractors. *)
hierarchyOrRow(c, st, strippedline, h) ==
  IF h.isMatched THEN nextLine([st EXCEPT !.hierarchyData = h.hierarchyData])
  ELSE rowOrUnrecognized(c, st, strippedline, scanRows(c, strippedline, 1))

(* Lines 194-249 on the stripped line. *)
classify(c, st, strippedline) ==
  IF isSkipLiteral(c, strippedline) THEN skipLine(st)
  ELSE IF isSkipRegex(c, strippedline) THEN skipLine(st)
  ELSE hierarchyOrRow(c, st, strippedline,
                      scanOrders(c, strippedline, 1, st.hierarchyData))

(* One iteration of the while loop of lines 192-249 on the program state   *)
(* st = [lc, hierarchyData, isHavingData, coll, diag, calls, raised].      *)
processLine(c, st, line) == classify(c, st, strip(line))

(* emits without the test of isHavingData. *)
emitsAlways(having) == TRUE

(* Line 251: whether processLog goes on to collector.write. *)
emits(having) == having

----------------------------------------------------------------------------
(* The state machine. *)

ProgramState ==
  [lc |-> lc, hierarchyData |-> hierarchyData, isHavingData |-> isHavingData,
   coll |-> [sheetDict |-> sheetDict, defaultSheet |-> defaultSheet],
   diag |-> diag, calls |-> calls, raised |-> FALSE]

InitWith(name, lim, start) ==
  /\ cfg = name
  /\ limit = lim
  /\ pc = start
  /\ consumed = <<>>
  /\ lc = 1
  /\ hierarchyData = [i \in 1..Len(Configs[name].match_orders) |-> None]
  /\ isHavingData = FALSE
  /\ sheetDict = NewCollector.sheetDict
  /\ defaultSheet = NewCollector.defaultSheet
  /\ diag = <<>>
  /\ calls = <<>>
  /\ writes = 0
  /\ workbook = NoWorkbook
  /\ cell = NoCell

(* Line 49: the assert at import, before processLog is called. *)
configValid(c) == Len(c.match_orders) = Len(c.order_handling)

Load ==
  /\ pc = "load"
  /\ pc' = IF configValid(Configs[cfg]) THEN "lines" ELSE "aborted"
  /\ UNCHANGED <<cfg, limit, consumed, lc, hierarchyData, isHavingData,
                 sheetDict, defaultSheet, diag, calls, writes, workbook, cellInput, cell>>

(* The program state after a loop iteration. *)
Becomes(st) ==
  /\ lc' = st.lc
  /\ hierarchyData' = st.hierarchyData
  /\ isHavingData' = st.isHavingData
  /\ sheetDict' = st.coll.sheetDict
  /\ defaultSheet' = st.coll.defaultSheet
  /\ diag' = st.diag
  /\ calls' = st.calls
  /\ pc' = IF st.raised THEN "crashed" ELSE "lines"

(* What collector.write(outputName) leaves behind. *)
Written(w) ==
  /\ writes' = writes + 1
  /\ workbook' = w.workbook
  /\ pc' = IF w.raised THEN "crashed" ELSE "done"

(* readline() returns one more line, and the loop body runs on it. *)
ReadLine ==
  /\ pc = "lines"
  /\ Len(consumed) < limit
  /\ \E l \in LineIds :
       /\ consumed' = Append(consumed, l)
       /\ Becomes(processLine(Configs[cfg], ProgramState, LineText[l]))
  /\ UNCHANGED <<cfg, limit, writes, workbook, cellInput, cell>>

(* readline() returns '' and no data point was produced: lines 251-252. *)
ReturnNoData ==
  /\ pc = "lines"
  /\ ~emits(isHavingData)
  /\ pc' = "done"
  /\ UNCHANGED <<cfg, limit, consumed, lc, hierarchyData, isHavingData,
                 sheetDict, defaultSheet, diag, calls, writes, workbook, cellInput, cell>>

(* readline() returns '' and there is data: line 254. *)
WriteOutput ==
  /\ pc = "lines"
  /\ emits(isHavingData)
  /\ Written(write(Configs[cfg], [sheetDict |-> sheetDict, defaultSheet |-> defaultSheet]))
  /\ UNCHANGED <<cfg, limit, consumed, lc, hierarchyData, isHavingData,
                 sheetDict, defaultSheet, diag, calls, cellInput, cell>>

Next == Load \/ ReadLine \/ ReturnNoData \/ WriteOutput

(* The program as shipped. *)
Init == InitWith("shipped", MaxLines, "load") /\ cellInput = <<>>

Spec == Init /\ [][Next]_vars

(* The program under each value of the configuration constants. *)
InitCfg ==
  /\ \E name \in ConfigNames : InitWith(name, MaxLinesCfg, "load")
  /\ cellInput = <<>>

SpecCfg == InitCfg /\ [][Next]_vars

----------------------------------------------------------------------------
(* The collector on its own: any sequence of addData calls, then write.    *)

sCount == <<"C","o","u","n","t">>
sTime == <<"T","i","m","e">>
s35 == <<"3",".","5">>
s40 == <<"4",".","0">>
s8 == <<"8">>
s5 == <<"5">>

HVectors ==
  { <<sAllocation, s8, s5>>, <<sAllocation, s8, None>>,
    <<sAllocation, None, s5>>, <<None, s8, s5>>, <<sAllocation, s8, s8>> }

Keys == {sCount, sTime}

Values == {s35, s40}

Collected(h, key, value, a) ==
  /\ sheetDict' = a.coll.sheetDict
  /\ defaultSheet' = a.coll.defaultSheet
  /\ calls' = Append(calls, callRecord(a, h, key, value))
  /\ pc' = IF a.raised THEN "crashed" ELSE "collect"

AddDataCall ==
  /\ pc = "collect"
  /\ Len(calls) < limit
  /\ \E h \in HVectors, key \in Keys, value \in Values :
       Collected(h, key, value,
                 addData(Configs[cfg],
                         [sheetDict |-> sheetDict, defaultSheet |-> defaultSheet],
                         h, key, value))
  /\ UNCHANGED <<cfg, limit, consumed, lc, hierarchyData, isHavingData,
                 diag, writes, workbook, cellInput, cell>>

WriteCollected ==
  /\ pc = "collect"
  /\ Len(calls) > 0
  /\ Written(write(Configs[cfg], [sheetDict |-> sheetDict, defaultSheet |-> defaultSheet]))
  /\ UNCHANGED <<cfg, limit, consumed, lc, hierarchyData, isHavingData,
                 sheetDict, defaultSheet, diag, calls, cellInput, cell>>

NextCollector == AddDataCall \/ WriteCollected

InitCollector == InitWith("shipped", MaxCalls, "collect") /\ cellInput = <<>>

SpecCollector == InitCollector /\ [][NextCollector]_vars

(* processCellData on its own: any short string over the characters that  *)
(* its tests tell apart, and the strings of the documentation.             *)

CellChars == {"-", "+", "7", ".", "e", "a", " ", SuperscriptTwo}

CellExamples ==
  { <<"4","2">>, <<"-","7">>, <<"3",".","1","4">>, <<"a","b","c">>,
    <<" ","4","2","\n">>, <<"-","3",".","5","e","-","2">>, <<"i","n","f">>,
    <<"-","I","n","f","i","n","i","t","y">>, <<"N","a","N">>, <<"1","0","0">> }

CellStrings == UNION {[1..m -> CellChars] : m \in 0..MaxCellLen} \cup CellExamples

InitCell ==
  /\ InitWith("shipped", 0, "cell")
  /\ cellInput \in CellStrings

ProcessCell ==
  /\ pc = "cell"
  /\ cell' = processCellData(cellInput)
  /\ pc' = IF cell'.raised THEN "crashed" ELSE "returned"
  /\ UNCHANGED <<cfg, limit, consumed, lc, hierarchyData, isHavingData,
                 sheetDict, defaultSheet, diag, calls, writes, workbook, cellInput>>

NextCell == ProcessCell

SpecCell == InitCell /\ [][NextCell]_vars

(* The collector under each role assignment that the comment on            *)
(* order_handling allows.                                                  *)
CollectorConfigNames == {"shipped", "overlap", "twoTitle", "rowSheetCol", "rowOnly"}

InitCollectorCfg ==
  /\ \E name \in CollectorConfigNames : InitWith(name, MaxCallsCfg, "collect")
  /\ cellInput = <<>>

SpecCollectorCfg == InitCollectorCfg /\ [][NextCollector]_vars

----------------------------------------------------------------------------
(* Properties of the table assembler, stated on the record of the addData  *)
(* calls and on the tables, and not on the branches of handleAddData.      *)

Last(s) == s[Len(s)]

(* The tables of an output group (none if the group was never created). *)
GroupTables(sd, ds, target) ==
  IF ~target.keyed THEN ds
  ELSE IF hasKey(sd, target.name) THEN sd[keyIndex(sd, target.name)].tables
  ELSE <<>>

HoldsCell(table, r, c) == r \in DOMAIN table.data /\ c \in DOMAIN table.data[r]

Cells(table) ==
  UNION {{<<r, c>> : c \in DOMAIN table.data[r]} : r \in DOMAIN table.data}

SeededTable(call) ==
  [title |-> call.title, rows |-> <<call.row>>, cols |-> <<call.col>>,
   data |-> (call.row :> (call.col :> call.value))]

AppendIfNew(s, x) == IF InSeq(x, s) THEN s ELSE Append(s, x)

(* The calls made so far into the group `target`, as indices into calls. *)
GroupCalls(target) == {i \in 1..Len(calls) : ~calls[i].raised /\ calls[i].target = target}

Targets == {calls[i].target : i \in 1..Len(calls)}

(* The group's title never changed over the calls i..j into it. *)
TitleUnchanged(target, i, j) ==
  \A k \in GroupCalls(target) : i <= k /\ k <= j => calls[k].title = calls[i].title

(* A sequence without its repetitions, in order of first occurrence. *)
RECURSIVE FirstOccurrences(_)
FirstOccurrences(s) ==
  IF Len(s) = 0 THEN <<>>
  ELSE AppendIfNew(FirstOccurrences(SubSeq(s, 1, Len(s) - 1)), s[Len(s)])

(* The calls into a group, in call order. *)
RECURSIVE CallsInto(_, _)
CallsInto(target, n) ==
  IF n = 0 THEN <<>>
  ELSE IF n \in GroupCalls(target) THEN Append(CallsInto(target, n - 1), calls[n])
  ELSE CallsInto(target, n - 1)

C1_Decision(call, old, new) ==
  LET n == Len(old) IN
  IF n = 0 \/ old[n].title # call.title \/ HoldsCell(old[n], call.row, call.col)
  THEN new = Append(old, SeededTable(call))
  ELSE /\ Len(new) = n
       /\ \A k \in 1..(n - 1) : new[k] = old[k]
       /\ new[n].title = old[n].title
       /\ new[n].rows = AppendIfNew(old[n].rows, call.row)
       /\ new[n].cols = AppendIfNew(old[n].cols, call.col)
       /\ Cells(new[n]) = Cells(old[n]) \cup {<<call.row, call.col>>}
       /\ new[n].data[call.row][call.col] = call.value
       /\ \A x \in Cells(old[n]) : new[n].data[x[1]][x[2]] = old[n].data[x[1]][x[2]]

(* C1: every addData call appends a table seeded with its single           *)
(* (row, col, value) entry to its group exactly when the group is empty,   *)
(* or the last table's title differs from the call's, or the last table    *)
(* already holds a value at (row, col); otherwise no table is appended and *)
(* the value is written into the last table at (row, col), the row and     *)
(* column names being appended to its headers only if not yet present.     *)
C1_NewTableOrFill ==
  [][(Len(calls') = Len(calls) + 1 /\ ~Last(calls').raised) =>
       C1_Decision(Last(calls'),
                   GroupTables(sheetDict, defaultSheet, Last(calls').target),
                   GroupTables(sheetDict', defaultSheet', Last(calls').target))]_vars

(* Three calls into one group under one title: the second filled the first *)
(* table, and the third, repeating a populated cell, started a second one. *)
C1_Witness ==
  /\ Len(calls) = 3
  /\ \A i \in 1..3 : calls[i].target = calls[1].target /\ calls[i].title = calls[1].title
  /\ calls[2].row # calls[1].row
  /\ calls[3].row = calls[1].row /\ calls[3].col = calls[1].col
  /\ Len(GroupTables(sheetDict, defaultSheet, calls[1].target)) = 2
  /\ Cardinality(Cells(GroupTables(sheetDict, defaultSheet, calls[1].target)[1])) = 2

(* C2: under an unchanged title, two calls into one group with the same    *)
(* (row, col) are written to two different tables of that title, the       *)
(* earlier call's table before the later call's, each table holding at     *)
(* (row, col) the value of its own call; and when these two are the only   *)
(* calls into the group, the group has exactly these two tables.           *)
C2_RepeatMakesTwoTables ==
  \A target \in Targets :
    LET tables == GroupTables(sheetDict, defaultSheet, target) IN
    \A i, j \in GroupCalls(target) :
      (i < j /\ calls[i].row = calls[j].row /\ calls[i].col = calls[j].col
         /\ TitleUnchanged(target, i, j)) =>
        /\ calls[i].tbl < calls[j].tbl
        /\ calls[j].tbl <= Len(tables)
        /\ tables[calls[i].tbl].title = calls[i].title
        /\ tables[calls[j].tbl].title = calls[i].title
        /\ HoldsCell(tables[calls[i].tbl], calls[i].row, calls[i].col)
        /\ HoldsCell(tables[calls[j].tbl], calls[j].row, calls[j].col)
        /\ tables[calls[i].tbl].data[calls[i].row][calls[i].col] = calls[i].value
        /\ tables[calls[j].tbl].data[calls[j].row][calls[j].col] = calls[j].value
        /\ (GroupCalls(target) = {i, j} =>
              tables = <<SeededTable(calls[i]), SeededTable(calls[j])>>)

(* The same (row, col) was supplied twice, with different values, under    *)
(* one title, and a call for another cell came in between.                 *)
C2_Witness ==
  /\ Len(calls) = 3
  /\ \A i \in 1..3 : calls[i].target = calls[1].target /\ calls[i].title = calls[1].title
  /\ calls[3].row = calls[1].row /\ calls[3].col = calls[1].col
  /\ calls[3].value # calls[1].value
  /\ calls[2].row # calls[1].row
  /\ calls[1].tbl = 1 /\ calls[3].tbl = 2

(* C3: when all the calls into a group carry one title and no two of them  *)
(* the same (row, col), the group has exactly one table, whose row headers *)
(* and column headers are the row names and the column names of the calls  *)
(* in order of first occurrence.                                           *)
C3_DistinctPairsOneTable ==
  \A target \in Targets :
    LET mine == CallsInto(target, Len(calls))
        tables == GroupTables(sheetDict, defaultSheet, target)
    IN (/\ Len(mine) > 0
        /\ \A i \in 1..Len(mine) : mine[i].title = mine[1].title
        /\ \A i, j \in 1..Len(mine) :
             i # j => <<mine[i].row, mine[i].col>> # <<mine[j].row, mine[j].col>>) =>
       /\ Len(tables) = 1
       /\ tables[1].rows = FirstOccurrences([i \in 1..Len(mine) |-> mine[i].row])
       /\ tables[1].cols = FirstOccurrences([i \in 1..Len(mine) |-> mine[i].col])

(* Three calls with distinct pairs over two rows and two columns, a row    *)
(* name and a column name each occurring twice.                            *)
C3_Witness ==
  /\ Len(calls) = 3
  /\ \A i \in 1..3 : calls[i].target = calls[1].target /\ calls[i].title = calls[1].title
  /\ calls[2].row # calls[1].row /\ calls[2].col = calls[1].col
  /\ calls[3].row = calls[1].row /\ calls[3].col # calls[1].col
  /\ Len(GroupTables(sheetDict, defaultSheet, calls[1].target)) = 1

(* C10: every populated cell of every table holds the value of the one     *)
(* call that wrote it, so no cell is ever overwritten and every call's     *)
(* value stays where it was written; and in a group, the latest table of   *)
(* title t that holds (r, c) holds the value of the last call made with    *)
(* that (t, r, c).                                                         *)
C10_RoundTrip ==
  \A target \in Targets :
    LET tables == GroupTables(sheetDict, defaultSheet, target)
        Writers(k, r, c) ==
          {i \in GroupCalls(target) :
             calls[i].tbl = k /\ calls[i].row = r /\ calls[i].col = c}
        Holding(t, r, c) ==
          {k \in 1..Len(tables) : tables[k].title = t /\ HoldsCell(tables[k], r, c)}
        Same(i) ==
          {j \in GroupCalls(target) :
             /\ calls[j].title = calls[i].title
             /\ calls[j].row = calls[i].row
             /\ calls[j].col = calls[i].col}
    IN /\ \A k \in 1..Len(tables) : \A x \in Cells(tables[k]) :
            /\ Cardinality(Writers(k, x[1], x[2])) = 1
            /\ \A i \in Writers(k, x[1], x[2]) :
                 tables[k].data[x[1]][x[2]] = calls[i].value
       /\ \A i \in GroupCalls(target) :
            /\ calls[i].tbl \in 1..Len(tables)
            /\ HoldsCell(tables[calls[i].tbl], calls[i].row, calls[i].col)
            /\ (\A j \in Same(i) : j <= i) =>
                 LET held == Holding(calls[i].title, calls[i].row, calls[i].col) IN
                 \A k \in held :
                   (\A m \in held : m <= k) =>
                     tables[k].data[calls[i].row][calls[i].col] = calls[i].value

(* The same (title, row, col) was supplied three times, with a value that  *)
(* changed and changed back: three tables, the latest holding the last.    *)
C10_Witness ==
  /\ Len(calls) = 3
  /\ \A i \in 1..3 :
       /\ calls[i].target = calls[1].target /\ calls[i].title = calls[1].title
       /\ calls[i].row = calls[1].row /\ calls[i].col = calls[1].col
  /\ calls[2].value # calls[1].value /\ calls[3].value = calls[1].value
  /\ Len(GroupTables(sheetDict, defaultSheet, calls[1].target)) = 3

----------------------------------------------------------------------------
(* Properties of processLog, stated on the lines read and on what each     *)
(* rule of the configuration matches, and not on the order of the scans.   *)

(* This step read one more line. *)
LineRead == Len(consumed') = Len(consumed) + 1

LineOf(id) == strip(LineText[id])

SkipRuleMatches(c, s) ==
  \/ \E g \in 1..Len(c.skip_literal_list) : s = c.skip_literal_list[g]
  \/ \E g \in 1..Len(c.skip_regex_list) : re_match(c.skip_regex_list[g], s).ok

SeriesItems(c, i) == c.match_series_dict[c.match_orders[i][2]]

ExtractorMatches(c, i, s) ==
  IF Len(c.match_orders[i][1]) = 0
  THEN \E k \in 1..Len(SeriesItems(c, i)) : SeriesItems(c, i)[k][1] = s
  ELSE re_match(c.match_orders[i][1], s).ok

ExtractedValue(c, i, s) ==
  IF Len(c.match_orders[i][1]) = 0
  THEN SeriesItems(c, i)[CHOOSE k \in 1..Len(SeriesItems(c, i)) :
                           SeriesItems(c, i)[k][1] = s][2]
  ELSE re_match(c.match_orders[i][1], s).groups[c.match_orders[i][2]]

MatchingExtractors(c, s) ==
  {i \in 1..Len(c.match_orders) : ExtractorMatches(c, i, s)}

Smallest(S) == CHOOSE x \in S : \A y \in S : x <= y

RowRuleMatches(c, s) ==
  \E t \in 1..Len(c.match_row) : re_match(c.match_row[t][1], s).ok

IsHierarchyLine(c, s) == ~SkipRuleMatches(c, s) /\ MatchingExtractors(c, s) # {}

IsRowLine(c, s) ==
  ~SkipRuleMatches(c, s) /\ MatchingExtractors(c, s) = {} /\ RowRuleMatches(c, s)

IsUnrecognized(c, s) ==
  ~SkipRuleMatches(c, s) /\ MatchingExtractors(c, s) = {} /\ ~RowRuleMatches(c, s)

HasRowLine == \E k \in 1..Len(consumed) : IsRowLine(Configs[cfg], LineOf(consumed[k]))

C4_Update(c, s) ==
  IF IsHierarchyLine(c, s)
  THEN /\ hierarchyData' =
            [hierarchyData EXCEPT ![Smallest(MatchingExtractors(c, s))] =
               ExtractedValue(c, Smallest(MatchingExtractors(c, s)), s)]
       /\ UNCHANGED <<sheetDict, defaultSheet, isHavingData, calls>>
  ELSE hierarchyData' = hierarchyData

(* C4: a line that no skip rule matches and that some hierarchy extractor  *)
(* matches sets the hierarchy entry of the smallest matching index to the  *)
(* captured text or the mapped series name, leaves every other entry as it *)
(* was and adds no data; every other line, and every other step, leaves   *)
(* the whole hierarchy as it was, so an entry keeps its value until the    *)
(* next line whose first matching extractor is its own.                    *)
C4_HierarchyUpdate ==
  [][IF LineRead THEN C4_Update(Configs[cfg], LineOf(Last(consumed')))
     ELSE hierarchyData' = hierarchyData]_vars

(* The last line read matched two hierarchy extractors, and only the entry *)
(* of the first one was set.                                               *)
C4_Witness ==
  /\ Len(consumed) > 0
  /\ pc = "lines"
  /\ LET c == Configs[cfg]
         s == LineOf(Last(consumed))
     IN /\ IsHierarchyLine(c, s)
        /\ Cardinality(MatchingExtractors(c, s)) = 2
        /\ \A i \in 1..Len(hierarchyData) :
             hierarchyData[i] # None <=> i = Smallest(MatchingExtractors(c, s))

(* C5: a line whose trimmed text equals a skip literal or matches a skip   *)
(* pattern at its start leaves the hierarchy, the output groups and their  *)
(* tables and the has-data flag as they were, adds no data point and       *)
(* prints no diagnostic, whatever else the line matches; the run goes on.  *)
C5_SkipLines ==
  [][(LineRead /\ SkipRuleMatches(Configs[cfg], LineOf(Last(consumed')))) =>
       /\ UNCHANGED <<hierarchyData, sheetDict, defaultSheet, isHavingData, diag, calls>>
       /\ pc' = "lines"]_vars

(* A skipped line that a row extractor matches too came after a row-data   *)
(* line: one data point, no diagnostic.                                    *)
C5_Witness ==
  /\ Len(consumed) = 2
  /\ pc = "lines"
  /\ LET c == Configs[cfg] IN
     /\ IsRowLine(c, LineOf(consumed[1]))
     /\ SkipRuleMatches(c, LineOf(consumed[2]))
     /\ RowRuleMatches(c, LineOf(consumed[2]))
  /\ Len(calls) = 1
  /\ diag = <<>>

(* C6: a line that no skip rule, no hierarchy extractor and no row         *)
(* extractor matches prints exactly one diagnostic, with the line's        *)
(* 1-based position in the input and its trimmed text, leaves the          *)
(* hierarchy and the tables as they were, and the run goes on.             *)
C6_UnrecognizedLine ==
  [][(LineRead /\ IsUnrecognized(Configs[cfg], LineOf(Last(consumed')))) =>
       /\ diag' = Append(diag, <<Len(consumed) + 1, LineOf(Last(consumed'))>>)
       /\ UNCHANGED <<hierarchyData, sheetDict, defaultSheet, isHavingData, calls>>
       /\ pc' = "lines"]_vars

(* A skipped line, a hierarchy line, a row-data line and then an           *)
(* unrecognized line, reported as line 4.                                  *)
C6_Witness ==
  /\ Len(consumed) = 4
  /\ LET c == Configs[cfg] IN
     /\ SkipRuleMatches(c, LineOf(consumed[1]))
     /\ IsHierarchyLine(c, LineOf(consumed[2]))
     /\ IsRowLine(c, LineOf(consumed[3]))
     /\ IsUnrecognized(c, LineOf(consumed[4]))
  /\ diag = << <<4, LineOf(consumed[4])>> >>

(* C7: DataCollector.write is invoked at most once, only when the input is *)
(* exhausted, and then exactly when some line was row data; an input       *)
(* without row data leaves no workbook.                                    *)
C7_EmissionGating ==
  /\ writes \in {0, 1}
  /\ (writes = 1 => pc \in {"done", "crashed"})
  /\ (pc \in {"done", "crashed"} => (writes = 1 <=> HasRowLine))
  /\ (~HasRowLine => workbook = NoWorkbook)

(* A run with row data, under a known title and column, that ended with    *)
(* the workbook written.                                                   *)
C7_Witness ==
  /\ pc = "done"
  /\ writes = 1
  /\ workbook.closed
  /\ HasRowLine
  /\ Len(consumed) = 4

RoleCount(roles, role) == Cardinality({i \in 1..Len(roles) : roles[i] = role})

BreaksConfigurationRules(c) ==
  \/ Len(c.match_orders) # Len(c.order_handling)
  \/ RoleCount(c.order_handling, "sheet") > 1
  \/ RoleCount(c.order_handling, "row") > 1
  \/ RoleCount(c.order_handling, "col") > 1
  \/ RoleCount(c.order_handling, "row") + RoleCount(c.order_handling, "col") = 0

(* C8: a configuration whose extractor list and role list differ in        *)
(* length, or with more than one sheet, row or col role, or with neither   *)
(* a row nor a col role, aborts the run before any line is read.           *)
C8_ConfigValidation ==
  BreaksConfigurationRules(Configs[cfg]) => (pc \in {"load", "aborted"} /\ consumed = <<>>)

----------------------------------------------------------------------------
(* Properties of the tables in every state of the collector.               *)

ToSet(s) == {s[i] : i \in 1..Len(s)}

NoDuplicates(s) == \A i, j \in 1..Len(s) : s[i] = s[j] => i = j

(* Every table of every output group. *)
AllTables ==
  UNION {ToSet(sheetDict[i].tables) : i \in 1..Len(sheetDict)} \cup ToSet(defaultSheet)

(* C11: in every table of every output group the row headers are pairwise  *)
(* distinct, the column headers are pairwise distinct, every key of the    *)
(* cell mapping is a row header, and every inner key of every row's        *)
(* mapping is a column header.                                             *)
C11_WellFormed ==
  \A table \in AllTables :
    /\ NoDuplicates(table.rows)
    /\ NoDuplicates(table.cols)
    /\ DOMAIN table.data \subseteq ToSet(table.rows)
    /\ \A r \in DOMAIN table.data : DOMAIN table.data[r] \subseteq ToSet(table.cols)

(* A table of two rows and two columns, filled by three calls, the second  *)
(* row and the second column each having come with a header already known. *)
C11_Witness ==
  \E table \in AllTables :
    /\ Len(table.rows) = 2
    /\ Len(table.cols) = 2
    /\ Cardinality(Cells(table)) = 3

----------------------------------------------------------------------------
(* Properties of addData's reading of the roles.                           *)

RoleDims(roles, role) == {i \in 1..Len(roles) : roles[i] = role}

(* The value of the dimension that has the role, or dflt without one. *)
RoleValue(roles, h, role, dflt) ==
  IF RoleDims(roles, role) = {} THEN dflt ELSE h[CHOOSE i \in RoleDims(roles, role) : TRUE]

(* The values of the title dimensions among the first n, in order. *)
RECURSIVE TitleParts(_, _, _)
TitleParts(roles, h, n) ==
  IF n = 0 THEN <<>>
  ELSE IF roles[n] \in {"sheet", "row", "col"} THEN TitleParts(roles, h, n - 1)
  ELSE Append(TitleParts(roles, h, n - 1), h[n])

(* The parts, each followed by a comma but the last. *)
RECURSIVE CommaJoined(_)
CommaJoined(parts) ==
  IF Len(parts) = 0 THEN <<>>
  ELSE IF Len(parts) = 1 THEN parts[1]
  ELSE CommaJoined(SubSeq(parts, 1, Len(parts) - 1)) \o <<",">> \o parts[Len(parts)]

C12_Partition(roles, call) ==
  /\ call.target = IF RoleDims(roles, "sheet") = {} THEN DefaultTarget
                   ELSE [keyed |-> TRUE, name |-> RoleValue(roles, call.h, "sheet", None)]
  /\ call.row = RoleValue(roles, call.h, "row", call.key)
  /\ call.col = RoleValue(roles, call.h, "col", call.key)
  /\ call.title = CommaJoined(TitleParts(roles, call.h, Len(call.h)))

(* C12: for every hierarchy vector and key, addData hands handleAddData    *)
(* the group keyed by the sheet dimension's value (the default group       *)
(* without a sheet dimension), the row dimension's value as row name and   *)
(* the col dimension's value as column name (the key without such a        *)
(* dimension), and as title the ','-join, in dimension order, of the       *)
(* values of the title dimensions ('' without one, the value itself with   *)
(* exactly one).                                                           *)
C12_RolePartition ==
  \A i \in 1..Len(calls) :
    ~calls[i].raised /\ C12_Partition(Configs[cfg].order_handling, calls[i])

----------------------------------------------------------------------------
(* Properties of the emitter, stated on the closed workbook.               *)

(* The tables behind the k-th worksheet of the workbook. *)
RegionTables(k) ==
  IF InSeq("sheet", Configs[cfg].order_handling) THEN sheetDict[k].tables ELSE defaultSheet

(* The sum over the tables before the k-th of 2 + its number of rows. *)
RECURSIVE Base(_, _)
Base(tables, k) ==
  IF k <= 1 THEN 0 ELSE Base(tables, k - 1) + 2 + Len(tables[k - 1].rows)

(* The sink cells the claim gives a table whose title row is at base, with *)
(* the string each one shows.                                              *)
Layout(table, base) ==
  {<<base, 0, table.title>>}
  \cup {<<base, j, table.cols[j]>> : j \in 1..Len(table.cols)}
  \cup {<<base + i, 0, table.rows[i]>> : i \in 1..Len(table.rows)}
  \cup UNION {{<<base + i, j, table.data[table.rows[i]][table.cols[j]]>> :
                 j \in {m \in 1..Len(table.cols) :
                          HoldsCell(table, table.rows[i], table.cols[m])}} :
              i \in 1..Len(table.rows)}

Positions(table, base) == {<<x[1], x[2]>> : x \in Layout(table, base)}

C13_Region(tables, cells) ==
  /\ DOMAIN cells = UNION {Positions(tables[k], Base(tables, k)) : k \in 1..Len(tables)}
  /\ \A k \in 1..Len(tables) : \A x \in Layout(tables[k], Base(tables, k)) :
        cells[<<x[1], x[2]>>] = processCellData(x[3])
  /\ \A k, m \in 1..Len(tables) :
        k # m => Positions(tables[k], Base(tables, k))
                   \cap Positions(tables[m], Base(tables, m)) = {}
  /\ \A k \in 1..(Len(tables) - 1) :
        /\ Base(tables, k + 1) = Base(tables, k) + Len(tables[k].rows) + 2
        /\ \A x \in DOMAIN cells : x[1] # Base(tables, k) + Len(tables[k].rows) + 1
        /\ \E x \in DOMAIN cells : x[1] = Base(tables, k) + Len(tables[k].rows)

(* C13: in each worksheet of a written workbook, the k-th table's title    *)
(* row is at the row index that is the sum over the earlier tables of      *)
(* 2 + their number of row headers; its column headers are in columns      *)
(* 1..len(cols) of that row, its i-th row header (from 0) at row           *)
(* base+1+i, column 0, and the cell of row i and column j at row base+1+i, *)
(* column 1+j, exactly when that cell is populated; nothing else is        *)
(* written, no two tables write the same cell, and exactly one blank row   *)
(* lies between consecutive tables.                                        *)
C13_EmitterLayout ==
  workbook.closed =>
    /\ Len(workbook.sheets) =
         (IF InSeq("sheet", Configs[cfg].order_handling) THEN Len(sheetDict) ELSE 1)
    /\ \A k \in 1..Len(workbook.sheets) :
         C13_Region(RegionTables(k), workbook.sheets[k].cells)

(* A written worksheet of two tables, the second at row 3 with two rows    *)
(* and two columns of which only two cells are populated and written.      *)
C13_Witness ==
  /\ workbook.closed
  /\ \E k \in 1..Len(workbook.sheets) :
       LET tables == RegionTables(k)
           cells == workbook.sheets[k].cells
       IN /\ Len(tables) = 2
          /\ Len(tables[2].rows) = 2 /\ Len(tables[2].cols) = 2
          /\ Cardinality(Cells(tables[2])) = 2
          /\ <<3, 0>> \in DOMAIN cells
          /\ <<4, 1>> \in DOMAIN cells /\ <<5, 2>> \in DOMAIN cells
          /\ <<4, 2>> \notin DOMAIN cells /\ <<5, 1>> \notin DOMAIN cells

----------------------------------------------------------------------------
(* Properties of processCellData.                                          *)

(* An optional leading minus sign followed by one or more digits 0-9. *)
IsMinusDigits(s) ==
  /\ Len(stripMinus(s)) > 0
  /\ \A i \in 1..Len(stripMinus(s)) : stripMinus(s)[i] \in Digits

(* float() accepts the string (it ignores white space around it). *)
IsFloatText(s) == parseFloat(strip(s)).ok

(* C14: a string that is, the white space around it apart, an optional     *)
(* leading minus sign followed by one or more digits is emitted as that    *)
(* integer, any other string that float() accepts as a float, and every    *)
(* other string as a string; processCellData returns a value for every     *)
(* string.                                                                 *)
C14_Coercion ==
  pc \in {"returned", "crashed"} =>
    /\ ~cell.raised
    /\ IF IsMinusDigits(strip(cellInput))
       THEN cell.type = "int"
            /\ cell.val = (IF strip(cellInput)[1] = "-" THEN -natVal(Tail(strip(cellInput)))
                           ELSE natVal(strip(cellInput)))
       ELSE IF IsFloatText(cellInput) THEN cell.type = "float"
       ELSE cell.type = "str"

----------------------------------------------------------------------------
(* The four outcomes of a line, and their order of precedence.             *)

MatchingRowRules(c, s) == {t \in 1..Len(c.match_row) : re_match(c.match_row[t][1], s).ok}

(* The key and the value the t-th row extractor takes from the line. *)
RowKey(c, t, s) ==
  IF c.match_row[t][2] # "" THEN re_match(c.match_row[t][1], s).groups[c.match_row[t][2]]
  ELSE c.match_row[t][3]

RowValue(c, t, s) == re_match(c.match_row[t][1], s).groups[c.match_row[t][4]]

(* How many of: the hierarchy changed, a call was made, a diagnostic was   *)
(* printed.                                                                *)
EffectsOfStep ==
  Cardinality({x \in {"hierarchy", "call", "diagnostic"} :
     \/ x = "hierarchy" /\ hierarchyData' # hierarchyData
     \/ x = "call" /\ calls' # calls
     \/ x = "diagnostic" /\ diag' # diag})

C15_Outcome(c, s) ==
  /\ EffectsOfStep <= 1
  /\ IF SkipRuleMatches(c, s)
     THEN UNCHANGED <<hierarchyData, calls, diag, sheetDict, defaultSheet, isHavingData>>
     ELSE IF MatchingExtractors(c, s) # {}
     THEN /\ hierarchyData' =
               [hierarchyData EXCEPT ![Smallest(MatchingExtractors(c, s))] =
                  ExtractedValue(c, Smallest(MatchingExtractors(c, s)), s)]
          /\ UNCHANGED <<calls, diag, sheetDict, defaultSheet, isHavingData>>
     ELSE IF MatchingRowRules(c, s) # {}
     THEN /\ Len(calls') = Len(calls) + 1
          /\ SubSeq(calls', 1, Len(calls)) = calls
          /\ Last(calls').h = hierarchyData
          /\ Last(calls').key = RowKey(c, Smallest(MatchingRowRules(c, s)), s)
          /\ Last(calls').value = RowValue(c, Smallest(MatchingRowRules(c, s)), s)
          /\ UNCHANGED <<hierarchyData, diag>>
     ELSE /\ Len(diag') = Len(diag) + 1
          /\ UNCHANGED <<hierarchyData, calls, sheetDict, defaultSheet, isHavingData>>

(* C15: every line read has exactly one of the outcomes Skip,              *)
(* HierarchyUpdate, RowData, Unrecognized: Skip if a skip literal or a     *)
(* skip pattern matches it; else HierarchyUpdate by the first hierarchy    *)
(* extractor that matches, with no data added even if a row extractor      *)
(* matches too; else RowData by the first row extractor that matches, with *)
(* exactly one addData call; else Unrecognized.                            *)
C15_ClassificationPriority ==
  [][LineRead => C15_Outcome(Configs[cfg], LineOf(Last(consumed')))]_vars

(* A line that a hierarchy extractor and a row extractor both match set    *)
(* the hierarchy and added nothing; the next line, which two row           *)
(* extractors match, made one call, with the first extractor's key and     *)
(* value.                                                                  *)
C15_Witness ==
  /\ Len(consumed) = 2
  /\ LET c == Configs[cfg] IN
     /\ ~SkipRuleMatches(c, LineOf(consumed[1]))
     /\ MatchingExtractors(c, LineOf(consumed[1])) # {}
     /\ MatchingRowRules(c, LineOf(consumed[1])) # {}
     /\ IsRowLine(c, LineOf(consumed[2]))
     /\ Cardinality(MatchingRowRules(c, LineOf(consumed[2]))) = 2
  /\ hierarchyData # [i \in 1..Len(hierarchyData) |-> None]
  /\ Len(calls) = 1
  /\ calls[1].key = sCount /\ calls[1].value = s35

----------------------------------------------------------------------------
(* What an addData call leaves as it was.                                  *)

GroupNames(sd) == [i \in 1..Len(sd) |-> sd[i].name]

AllTargets(sd) == {DefaultTarget} \cup {[keyed |-> TRUE, name |-> sd[i].name] : i \in 1..Len(sd)}

(* The tables of one group before and after a call. *)
C16_Group(old, new, isTarget) ==
  IF isTarget
  THEN /\ new # old
       /\ \/ Len(new) = Len(old) + 1 /\ SubSeq(new, 1, Len(old)) = old
          \/ /\ Len(new) = Len(old)
             /\ \A k \in 1..(Len(old) - 1) : new[k] = old[k]
  ELSE new = old

(* C16: an addData call removes and reorders no output group and no table, *)
(* changes exactly one group, its target, and in it either changes only    *)
(* the last table or appends one table; so a table that is not the last of *)
(* its group is never changed again, even by a later call with its title.  *)
C16_AppendOnly ==
  [][Len(calls') = Len(calls) + 1 =>
       /\ SubSeq(GroupNames(sheetDict'), 1, Len(sheetDict)) = GroupNames(sheetDict)
       /\ \A g \in AllTargets(sheetDict') :
            C16_Group(GroupTables(sheetDict, defaultSheet, g),
                      GroupTables(sheetDict', defaultSheet', g),
                      g = Last(calls').target)]_vars

(* Three calls into one group, the third with the title of the first and   *)
(* another title in between: three tables, the first still as the first    *)
(* call seeded it although the third call's cell was free in it.           *)
C16_Witness ==
  /\ Len(calls) = 3
  /\ \A i \in 1..3 : calls[i].target = calls[1].target
  /\ calls[2].title # calls[1].title
  /\ calls[3].title = calls[1].title
  /\ calls[3].row # calls[1].row
  /\ Len(GroupTables(sheetDict, defaultSheet, calls[1].target)) = 3
  /\ GroupTables(sheetDict, defaultSheet, calls[1].target)[1] = SeededTable(calls[1])

----------------------------------------------------------------------------
(* Where the data of a call goes.                                          *)

(* The values the sheet dimension had at the calls made so far. *)
SheetKeysSeen ==
  {RoleValue(Configs[cfg].order_handling, calls[i].h, "sheet", None) : i \in 1..Len(calls)}

(* The tables written by the calls that returned are in the group. *)
CallsAreIn(tables) ==
  \A i \in 1..Len(calls) :
    ~calls[i].raised =>
      /\ calls[i].target = DefaultTarget
      /\ calls[i].tbl \in 1..Len(tables)
      /\ HoldsCell(tables[calls[i].tbl], calls[i].row, calls[i].col)

(* C17: with a sheet dimension the default group is empty and the group    *)
(* keys are exactly the values the sheet dimension had at the addData      *)
(* calls, each once; without one the keyed groups are empty and all the    *)
(* data is in the default group; so the assertions of write hold whenever  *)
(* it is called, and a written workbook has one region per sheet key, in   *)
(* the order of the keys, or exactly one unnamed region.                   *)
C17_SheetRouting ==
  IF RoleDims(Configs[cfg].order_handling, "sheet") # {}
  THEN /\ defaultSheet = <<>>
       /\ ToSet(GroupNames(sheetDict)) = SheetKeysSeen
       /\ NoDuplicates(GroupNames(sheetDict))
       /\ workbook.closed =>
            /\ Len(workbook.sheets) = Cardinality(SheetKeysSeen)
            /\ \A k \in 1..Len(workbook.sheets) :
                 workbook.sheets[k].name = worksheetName(sheetDict[k].name, k)
  ELSE /\ sheetDict = <<>>
       /\ CallsAreIn(defaultSheet)
       /\ workbook.closed =>
            /\ Len(workbook.sheets) = 1
            /\ workbook.sheets[1].name = worksheetName(None, 1)

(* Two calls with different values of the sheet dimension, and the         *)
(* workbook written with two regions.                                      *)
C17_Witness ==
  /\ RoleDims(Configs[cfg].order_handling, "sheet") # {}
  /\ Len(calls) = 2
  /\ Cardinality(SheetKeysSeen) = 2
  /\ Len(sheetDict) = 2
  /\ workbook.closed
  /\ Len(workbook.sheets) = 2

----------------------------------------------------------------------------
(* The unset hierarchy value.                                              *)

(* C18: whatever lines are read, every output-group key, table title, row  *)
(* header and column header the collector holds is a string and never the  *)
(* unset initial hierarchy value, and neither addData nor write fails.     *)
C18_NoUnsetHeaders ==
  /\ \A i \in 1..Len(sheetDict) : sheetDict[i].name # None
  /\ \A table \in AllTables :
       /\ table.title # None
       /\ ~InSeq(None, table.rows)
       /\ ~InSeq(None, table.cols)
  /\ pc # "crashed"

----------------------------------------------------------------------------
(* Headers and cells.                                                      *)

(* C19: every table has at least one row header and one column header,     *)
(* every row header has a populated cell in its row, and every column      *)
(* header has a populated cell in its column.                              *)
C19_NoEmptyHeaders ==
  \A table \in AllTables :
    /\ Len(table.rows) >= 1
    /\ Len(table.cols) >= 1
    /\ \A i \in 1..Len(table.rows) :
         \E j \in 1..Len(table.cols) : HoldsCell(table, table.rows[i], table.cols[j])
    /\ \A j \in 1..Len(table.cols) :
         \E i \in 1..Len(table.rows) : HoldsCell(table, table.rows[i], table.cols[j])

(* A table of two rows and two columns with two populated cells: each      *)
(* header came with the one cell under it.                                 *)
C19_Witness ==
  \E table \in AllTables :
    /\ Len(table.rows) = 2
    /\ Len(table.cols) = 2
    /\ Cardinality(Cells(table)) = 2

(* The populated cells of the first k tables of a sheet. *)
RECURSIVE CellCount(_, _)
CellCount(tables, k) ==
  IF k = 0 THEN 0 ELSE CellCount(tables, k - 1) + Cardinality(Cells(tables[k]))

(* The populated cells, and the tables, of the first k keyed groups. *)
RECURSIVE KeyedCells(_, _)
KeyedCells(sd, k) ==
  IF k = 0 THEN 0 ELSE KeyedCells(sd, k - 1) + CellCount(sd[k].tables, Len(sd[k].tables))

RECURSIVE KeyedTables(_, _)
KeyedTables(sd, k) ==
  IF k = 0 THEN 0 ELSE KeyedTables(sd, k - 1) + Len(sd[k].tables)

TotalCells == KeyedCells(sheetDict, Len(sheetDict)) + CellCount(defaultSheet, Len(defaultSheet))

TotalTables == KeyedTables(sheetDict, Len(sheetDict)) + Len(defaultSheet)

(* C20: after n addData calls the populated cells of all the tables of all *)
(* the output groups are n in number, and for n >= 1 the tables are at     *)
(* least 1 and at most n.                                                  *)
C20_Conservation ==
  /\ TotalCells = Len(calls)
  /\ Len(calls) >= 1 => (1 <= TotalTables /\ TotalTables <= Len(calls))

(* Three calls into two groups that left two tables: one holds two cells,  *)
(* the other one.                                                          *)
C20_Witness ==
  /\ Len(calls) = 3
  /\ Len(sheetDict) = 2
  /\ TotalTables = 2
  /\ TotalCells = 3

====
